---- MODULE Spec2Model ----
(***************************************************************************)
(* Model of trytond/protocols/wrappers.py: the request wrappers of the     *)
(* Tryton server.  This part models with_transaction, the executor that    *)
(* runs a request handler in a database transaction, retries it on a       *)
(* DatabaseOperationalError, commits, and then runs the tasks queued on    *)
(* the transaction.                                                        *)
(*                                                                         *)
(* One behaviour is one call of with_transaction's wrapper.  The handler   *)
(* (func), the commit and run_task are the environment: each of their      *)
(* outcomes is a nondeterministic choice.  log is the history of what the  *)
(* wrapper did, in order; the properties are stated over it.               *)
(***************************************************************************)
EXTENDS Integers, Sequences, FiniteSets

\* ---------------------------------------------------------------- bounds
MaxRetry == 3      \* largest value of the [database] retry setting explored
MaxTasks == 3      \* task ids the handler may queue during one request
MaxResult == 2     \* distinct handler results

\* ------------------------------------------------------------- constants
\* time.sleep(0.02 * (retry - count)): the step, in milliseconds
BackoffStepMs == 20

Methods == {"GET", "HEAD", "POST", "PUT", "DELETE", "PATCH"}
MutatingMethods == {"POST", "PUT", "DELETE", "PATCH"}
ReadonlyArgs == {"None", "True", "False"}
OperationalError == "DatabaseOperationalError"
OtherErrors == {"UserError", "UserWarning", "HTTPException", "Exception"}
HandlerErrors == {OperationalError} \cup OtherErrors
TaskError == "TaskError"
Results == 1..MaxResult
NoResult == 0
NoError == "NoError"
\* abort(HTTPStatus.TOO_MANY_REQUESTS): an HTTPException
TooManyRequests == "TooManyRequests"
RateLimit == "RateLimitException"
Unresolved == "Unresolved"
\* user ids the identity service may answer; "None": no user
UserIds == {"uid1"}

VARIABLES
    method,     \* request.method
    readonly,   \* the decorator's readonly argument: "None", "True", "False"
    retry,      \* config.getint('database', 'retry')
    pc,         \* where the wrapper is
    count,      \* the loop variable of the attempt loop
    tasks,      \* transaction.tasks of the transaction bound to `transaction`
    result,     \* the local variable result
    returned,   \* the value the wrapper returned to its caller
    raised,     \* the exception that left the wrapper
    nextTask,   \* the next task id the handler will queue
    log,        \* history: what the wrapper and its collaborators did
    \* the request and the with_pool wrapper around with_transaction
    rpc,        \* whether request.rpc_method is set
    userArg,    \* the decorator's user argument: "default" (0) or "request"
    viewArgs,   \* request.view_args: "none", "nodb" (no database_name), "db"
    authType,   \* request.authorization: "none", "session", or "basic"
    idAnswer,   \* what security.check / security.login answers when called
    user_,      \* the local variable user_: the principal of every attempt
    consulted,  \* number of calls of security.check and security.login
    response,   \* how with_pool's wrapper ended
    contextArg, \* the decorator's context argument: "None" or "given"
    opened,     \* history: the arguments of each Transaction().start
    \* one call of user_application's wrapper
    hdrPresent, \* whether the request has an Authorization header
    hdrParts,   \* the header's value as split(None, 1) sees it: 0..2 parts
    appName,    \* the decorator's name argument
    jsonArg,    \* the decorator's json argument
    appPc,      \* "Start", "InHandler", "Returned", "Raised"
    appStatus,  \* what left the wrapper: a response kind, a status, an error
    txUser,     \* Transaction().user, the active principal
    txAccess,   \* the transaction's access-control setting
    user0,      \* txUser when the wrapper was called
    access0,    \* txAccess when the wrapper was called
    handlerCalls, \* number of calls of func
    lookups,    \* number of calls of UserApplication.check
    \* one call of parse_authorization_header
    pcase,      \* how the argument was built (history)
    pfields,    \* the username, user id and token the argument was built from
    pkind,      \* the argument's type: "None", "str" or "bytes"
    pvalue,     \* the argument: the sequence of its code points / bytes
    ppc,        \* "Start", "Done"
    presult     \* what the call returned or raised

txVars == <<method, readonly, retry, pc, count, tasks, result, returned,
            raised, nextTask, log>>
reqVars == <<rpc, userArg, viewArgs, authType, idAnswer, user_, consulted,
             response, contextArg, opened>>
\* what the steps of with_transaction's attempt loop leave alone
appVars == <<hdrPresent, hdrParts, appName, jsonArg, appPc, appStatus,
             txUser, txAccess, user0, access0, handlerCalls, lookups>>
\* what the steps of with_pool and with_transaction leave alone
parseVars == <<pcase, pfields, pkind, pvalue, ppc, presult>>
others == <<appVars, parseVars>>
outer == <<reqVars, others>>
vars == <<txVars, outer>>

Event(e, a) == [ev |-> e, arg |-> a]

\* ------------------------------------------ parse_authorization_header
\* Text and bytes are sequences of numbers: the code points of a str, the
\* values of the bytes.  encode('latin1') and decode('latin1') keep the
\* numbers; encode fails on a code point above 255.
Least(S) == CHOOSE x \in S : \A y \in S : x <= y
Whitespace == {9, 10, 11, 12, 13, 32}
SessionWord == <<115, 101, 115, 115, 105, 111, 110>>
Digits == 48..57

NoCredential ==
    [kind |-> "None", username |-> <<>>, userid |-> 0, session |-> <<>>]
Raises(e) ==
    [kind |-> e, username |-> <<>>, userid |-> 0, session |-> <<>>]
\* Authorization('session', {username, userid, session})
Credential(u, n, t) ==
    [kind |-> "session", username |-> u, userid |-> n, session |-> t]

\* value.encode('latin1') succeeds
Latin1Encodable(v) == \A i \in DOMAIN v : v[i] <= 255

\* bytes.split(None, 1): at most two parts, split at the first run of
\* whitespace; leading whitespace is dropped, the second part keeps its end
FirstNonWs(b, i) ==
    LET S == {j \in i..Len(b) : b[j] \notin Whitespace}
    IN IF S = {} THEN Len(b) + 1 ELSE Least(S)
FirstWs(b, i) ==
    LET S == {j \in i..Len(b) : b[j] \in Whitespace}
    IN IF S = {} THEN Len(b) + 1 ELSE Least(S)
SplitWhitespaceOnce(b) ==
    LET s == FirstNonWs(b, 1) IN
    IF s > Len(b) THEN <<>>
    ELSE LET e == FirstWs(b, s)
             r == FirstNonWs(b, e)
         IN IF r > Len(b)
            THEN <<SubSeq(b, s, e - 1)>>
            ELSE <<SubSeq(b, s, e - 1), SubSeq(b, r, Len(b))>>

\* bytes.lower()
LowerBytes(b) ==
    [i \in 1..Len(b) |-> IF b[i] \in 65..90 THEN b[i] + 32 ELSE b[i]]

\* The value of a character of the base64 alphabet, 64 for any other
B64Value(c) ==
    IF c \in 65..90 THEN c - 65
    ELSE IF c \in 97..122 THEN c - 71
    ELSE IF c \in 48..57 THEN c + 4
    ELSE IF c = 43 THEN 62
    ELSE IF c = 47 THEN 63
    ELSE 64

\* base64.b64decode(s) with validate=False (binascii.a2b_base64): characters
\* outside the alphabet are skipped, a complete padding ends the input, and
\* an incomplete last group is an error.  quad: position in the group of
\* four; left: the bits not yet written; pads: '=' seen in a row
RECURSIVE B64Scan(_, _, _, _, _, _)
B64Scan(b, i, quad, left, pads, out) ==
    IF i > Len(b) THEN [ok |-> quad = 0, bytes |-> out]
    ELSE IF b[i] = 61
    THEN IF quad >= 2 /\ quad + pads + 1 >= 4
         THEN [ok |-> TRUE, bytes |-> out]
         ELSE B64Scan(b, i + 1, quad, left,
                      IF quad >= 2 THEN pads + 1 ELSE pads, out)
    ELSE LET v == B64Value(b[i]) IN
         IF v = 64 THEN B64Scan(b, i + 1, quad, left, pads, out)
         ELSE CASE quad = 0 -> B64Scan(b, i + 1, 1, v, 0, out)
                [] quad = 1 ->
                    B64Scan(b, i + 1, 2, v % 16, 0,
                            Append(out, left * 4 + (v \div 16)))
                [] quad = 2 ->
                    B64Scan(b, i + 1, 3, v % 4, 0,
                            Append(out, left * 16 + (v \div 4)))
                [] OTHER ->
                    B64Scan(b, i + 1, 0, 0, 0, Append(out, left * 64 + v))
B64Decode(b) == B64Scan(b, 1, 0, 0, 0, <<>>)

\* bytes.split(sep, maxsplit)
RECURSIVE SplitOn(_, _, _)
SplitOn(b, sep, maxsplit) ==
    LET S == {j \in DOMAIN b : b[j] = sep} IN
    IF maxsplit = 0 \/ S = {} THEN <<b>>
    ELSE <<SubSeq(b, 1, Least(S) - 1)>>
         \o SplitOn(SubSeq(b, Least(S) + 1, Len(b)), sep, maxsplit - 1)

\* int(bytes): surrounding whitespace, a sign, decimal digits with single
\* underscores between them
RECURSIVE DigitsValue(_, _)
DigitsValue(b, acc) ==
    IF b = <<>> THEN acc
    ELSE IF b[1] = 95 THEN DigitsValue(Tail(b), acc)
    ELSE DigitsValue(Tail(b), acc * 10 + (b[1] - 48))
IntOf(b) ==
    LET NonWs == {j \in DOMAIN b : b[j] \notin Whitespace} IN
    IF NonWs = {} THEN [ok |-> FALSE, value |-> 0]
    ELSE LET first == Least(NonWs)
             last == CHOOSE x \in NonWs : \A y \in NonWs : y <= x
             signed == b[first] \in {43, 45}
             body == SubSeq(b, IF signed THEN first + 1 ELSE first, last)
             wellFormed ==
                 /\ body # <<>>
                 /\ \A j \in DOMAIN body : body[j] \in Digits \cup {95}
                 /\ body[1] \in Digits
                 /\ body[Len(body)] \in Digits
                 /\ \A j \in 1..(Len(body) - 1) :
                     ~(body[j] = 95 /\ body[j + 1] = 95)
         IN IF ~wellFormed THEN [ok |-> FALSE, value |-> 0]
            ELSE [ok |-> TRUE,
                  value |-> IF b[first] = 45 THEN 0 - DigitsValue(body, 0)
                            ELSE DigitsValue(body, 0)]

\* parse_authorization_header(value)
ParseAuthorizationHeader(kind, value) ==
    IF kind = "None" \/ value = <<>> THEN NoCredential
    ELSE IF kind = "str" /\ ~Latin1Encodable(value)
    THEN Raises("UnicodeEncodeError")
    ELSE LET parts == SplitWhitespaceOnce(value) IN
    IF Len(parts) # 2 THEN NoCredential
    ELSE IF LowerBytes(parts[1]) # SessionWord THEN NoCredential
    ELSE LET decoded == B64Decode(parts[2]) IN
    IF ~decoded.ok THEN NoCredential
    ELSE LET fields == SplitOn(decoded.bytes, 58, 3) IN
    IF Len(fields) # 3 THEN NoCredential
    ELSE LET userid == IntOf(fields[2]) IN
    IF ~userid.ok THEN NoCredential
    ELSE Credential(fields[1], userid.value, fields[3])

\* The header values given to parse_authorization_header.  A client builds
\* '<scheme> <base64 of username:userid:token>'.
UserNames == {<<117>>, <<97, 108>>}               \* u, al
UserNumbers == {0, 7, 12, 305}
SessionTokens == {<<116>>, <<107, 51, 121>>}      \* t, k3y
SessionSpellings ==
    { <<115, 101, 115, 115, 105, 111, 110>>,      \* session
      <<83, 101, 115, 115, 105, 111, 110>>,       \* Session
      <<83, 69, 83, 83, 73, 79, 78>> }            \* SESSION
OtherSchemes ==
    { <<98, 97, 115, 105, 99>>,                   \* basic
      <<66, 101, 97, 114, 101, 114>> }            \* Bearer
NonIntegers == {<<>>, <<120, 49>>, <<49, 46, 53>>}   \* '', x1, 1.5
JunkPlaces == {"before", "inside", "after"}
ValueKinds == {"str", "bytes"}

RECURSIVE IntText(_)
IntText(n) ==
    IF n < 10 THEN <<48 + n>> ELSE IntText(n \div 10) \o <<48 + (n % 10)>>

B64Char(v) ==
    IF v < 26 THEN 65 + v
    ELSE IF v < 52 THEN 71 + v
    ELSE IF v < 62 THEN v - 4
    ELSE IF v = 62 THEN 43
    ELSE 47
RECURSIVE B64Encode(_)
B64Encode(b) ==
    IF b = <<>> THEN <<>>
    ELSE IF Len(b) = 1
    THEN <<B64Char(b[1] \div 4), B64Char((b[1] % 4) * 16), 61, 61>>
    ELSE IF Len(b) = 2
    THEN <<B64Char(b[1] \div 4),
           B64Char((b[1] % 4) * 16 + (b[2] \div 16)),
           B64Char((b[2] % 16) * 4), 61>>
    ELSE <<B64Char(b[1] \div 4),
           B64Char((b[1] % 4) * 16 + (b[2] \div 16)),
           B64Char((b[2] % 16) * 4 + (b[3] \div 64)),
           B64Char(b[3] % 64)>>
         \o B64Encode(SubSeq(b, 4, Len(b)))

Join3(u, i, t) == u \o <<58>> \o i \o <<58>> \o t
Header(scheme, info) == scheme \o <<32>> \o info
\* the character '!' is not of the base64 alphabet
WithJunk(info, place) ==
    CASE place = "before" -> <<33>> \o info
      [] place = "inside" -> SubSeq(info, 1, 3) \o <<33>>
                             \o SubSeq(info, 4, Len(info))
      [] OTHER -> info \o <<33>>
ParseCase(c, u, n, t, k, v) ==
    [case |-> c, fields |-> [username |-> u, userid |-> n, session |-> t],
     kind |-> k, value |-> v]

ParseInputs ==
    {ParseCase("absent", <<>>, 0, <<>>, "None", <<>>)}
    \cup {ParseCase("empty", <<>>, 0, <<>>, k, <<>>) : k \in ValueKinds}
    \cup {ParseCase("noinfo", <<>>, 0, <<>>, k, sp \o pad) :
            k \in ValueKinds, sp \in SessionSpellings,
            pad \in {<<>>, <<32>>}}
    \cup {ParseCase("wellformed", u, n, t, k,
                    Header(sp, B64Encode(Join3(u, IntText(n), t)))) :
            u \in UserNames, n \in UserNumbers, t \in SessionTokens,
            k \in ValueKinds, sp \in SessionSpellings}
    \cup {ParseCase("nonBase64", u, n, t, k,
                    Header(sp, WithJunk(B64Encode(Join3(u, IntText(n), t)),
                                        j))) :
            u \in UserNames, n \in {7, 12}, t \in SessionTokens,
            k \in ValueKinds, sp \in SessionSpellings, j \in JunkPlaces}
    \cup {ParseCase("truncated", u, n, t, k,
                    LET info == B64Encode(Join3(u, IntText(n), t))
                    IN Header(sp, SubSeq(info, 1, Len(info) - 1))) :
            u \in UserNames, n \in {7, 12}, t \in SessionTokens,
            k \in ValueKinds, sp \in SessionSpellings}
    \cup {ParseCase("badId", u, 0, t, k,
                    Header(sp, B64Encode(Join3(u, i, t)))) :
            u \in UserNames, i \in NonIntegers, t \in SessionTokens,
            k \in ValueKinds, sp \in SessionSpellings}
    \cup {ParseCase("twoFields", u, 0, t, k,
                    Header(sp, B64Encode(u \o <<58>> \o t))) :
            u \in UserNames, t \in SessionTokens,
            k \in ValueKinds, sp \in SessionSpellings}
    \cup {ParseCase("fourFields", u, n, t, k,
                    Header(sp, B64Encode(Join3(u, IntText(n), t)
                                         \o <<58>> \o t))) :
            u \in UserNames, n \in {7, 12}, t \in SessionTokens,
            k \in ValueKinds, sp \in SessionSpellings}
    \cup {ParseCase("otherScheme", u, n, t, k,
                    Header(sc, B64Encode(Join3(u, IntText(n), t)))) :
            u \in UserNames, n \in {7, 12}, t \in SessionTokens,
            k \in ValueKinds, sc \in OtherSchemes}
    \cup {ParseCase("nonLatin1", u, n, t, "str",
                    Header(sp, B64Encode(Join3(u, IntText(n), t)))
                    \o <<8364>>) :
            u \in UserNames, n \in {7, 12}, t \in SessionTokens,
            sp \in SessionSpellings}

\* ------------------------------------------- user_application: its data
Schemes == {"bearer", "Bearer", "BEARER", "Basic", "basic"}
Tokens == {"tokA", "tokB", "tokX"}
AppNames == {"app1", "app2"}
\* request.headers['Authorization'] without the header: the KeyError of the
\* WSGI environ, or the BadRequestKeyError of the header list
MissingHeaderErrors == {"KeyError", "BadRequestKeyError"}
\* the res.user.application records: key, application name, owning user
Registrations ==
    { [key |-> "tokA", application |-> "app1", user |-> "owner1"],
      [key |-> "tokB", application |-> "app2", user |-> "owner2"] }
NoApplication == [key |-> "", application |-> "", user |-> "None"]
\* UserApplication.check(key, name): the registration of key for the
\* application name, or None
Check(key, name) ==
    IF \E r \in Registrations : r.key = key /\ r.application = name
    THEN CHOOSE r \in Registrations : r.key = key /\ r.application = name
    ELSE NoApplication
\* check_access(): the access-control setting while the handler runs
ScopedAccess == FALSE

\* ------------------------------------------------------ pure computations
\* auth_type.lower()
Lower_Missing(w) == w
Lower(w) ==
    CASE w \in {"bearer", "Bearer", "BEARER"} -> "bearer"
      [] w \in {"Basic", "basic"} -> "basic"
      [] OTHER -> w

\* `if not application`
Denied_Never(app) == FALSE
Denied(app) == app = NoApplication

\* transaction.set_user(application.user.id)
SetUserArg_Key(app) == app.key
SetUserArg(app) == app.user

\* `if not isinstance(response, Response) and json`
Encoded(kind, json) ==
    IF kind # "Response" /\ json THEN "JSONResponse" ELSE kind

\* readonly_: the explicit flag, else inferred from the request method
readonly_MissingPatch ==
    IF readonly = "None"
    THEN method \notin {"POST", "PUT", "DELETE"}
    ELSE readonly = "True"

readonly_ ==
    IF readonly = "None"
    THEN method \notin MutatingMethods
    ELSE readonly = "True"

\* context_: a copy of the decorator's context, or an empty one, with the
\* request's context under '_request'; as the set of its keys
DecoratorContext == {"language", "company"}
context_ ==
    (IF contextArg = "None" THEN {} ELSE DecoratorContext) \cup {"_request"}

\* Transaction().start(pool.database_name, user_, readonly=readonly_,
\*                     context=context_)
StartArgs ==
    [user |-> user_, readonly |-> readonly_, context |-> context_]

\* 0.02 * (retry - count), in milliseconds
Backoff_Exponential(r, c) == BackoffStepMs * (2 ^ (r - c - 1))
Backoff(r, c) == BackoffStepMs * (r - c)

\* `if count and not readonly_`
RetryAllowed_OffByOne(c, ro) == c > 1 /\ ~ro
RetryAllowed_IgnoreReadonly(c, ro) == c # 0
RetryAllowed(c, ro) == c # 0 /\ ~ro

\* `except backend.DatabaseOperationalError`
IsOperationalError_Any(e) == TRUE
IsOperationalError(e) == e = OperationalError

\* `while transaction.tasks`
TasksPending_StopsEarly(q) == Len(q) > 1
TasksPending(q) == q # <<>>

\* `transaction.tasks.pop()`: the last element, and the list without it
TaskPop_First(q) == [task_id |-> q[1], rest |-> SubSeq(q, 2, Len(q))]
TaskPop_Peek(q) == [task_id |-> q[Len(q)], rest |-> q]
TaskPop(q) == [task_id |-> q[Len(q)], rest |-> SubSeq(q, 1, Len(q) - 1)]

\* Transaction().start(...): a new transaction has no task queued
StartedTasks == <<>>

\* run_task(pool, task_id) may fail, and the failure is the caller's concern
RunTaskMayFail == TRUE

\* `except RateLimitException: abort(HTTPStatus.TOO_MANY_REQUESTS)`
RateLimitedAs_Uncaught == RateLimit
RateLimitedAs == TooManyRequests

\* Request.user_id: the principal of the request, the number of calls of the
\* identity service it takes, and the exception it ends with
UserId(va, at, answer) ==
    IF va = "none" THEN [user |-> "None", calls |-> 0, error |-> NoError]
    ELSE IF va = "nodb" THEN [user |-> "None", calls |-> 0, error |-> NoError]
    ELSE IF at = "none" THEN [user |-> "None", calls |-> 0, error |-> NoError]
    ELSE IF at = "session"
         THEN \* security.check(database_name, userid, session)
              [user |-> answer, calls |-> 1, error |-> NoError]
    ELSE \* security.login(database_name, username, auth)
         IF answer = RateLimit
         THEN [user |-> Unresolved, calls |-> 1, error |-> RateLimitedAs]
         ELSE [user |-> answer, calls |-> 1, error |-> NoError]

\* the except clauses of with_pool's wrapper
IsHTTPException(e) == e \in {"HTTPException", TooManyRequests}
PoolOutcome_IgnoresRpc(e, isRpc) ==
    IF IsHTTPException(e) THEN "Reraised"
    ELSE IF e \in {"UserError", "UserWarning"} THEN "Status400"
    ELSE "Status500"
PoolOutcome(e, isRpc) ==
    IF IsHTTPException(e) THEN "Reraised"
    ELSE IF e \in {"UserError", "UserWarning"}
         THEN IF isRpc THEN "Reraised" ELSE "Status400"
    ELSE IF isRpc THEN "Reraised" ELSE "Status500"

\* One pass through the head of the loop body for loop value c: the sleep
\* (skipped on the first pass), the start of the transaction, the call of func
AttemptEvents(c) ==
    (IF c # retry THEN <<Event("sleep", Backoff(retry, c))>> ELSE <<>>)
    \o <<Event("start", c), Event("call", c)>>

\* ------------------------------------------------------------------ Init
\* user_application is not running
AppIdle ==
    /\ hdrPresent = FALSE
    /\ hdrParts = <<>>
    /\ appName = "app1"
    /\ jsonArg = TRUE
    /\ appPc = "Start"
    /\ appStatus = "None"
    /\ txUser = "0"
    /\ txAccess = FALSE
    /\ user0 = "0"
    /\ access0 = FALSE
    /\ handlerCalls = 0
    /\ lookups = 0
\* parse_authorization_header is not running
NoFields == [username |-> <<>>, userid |-> 0, session |-> <<>>]
ParseIdle ==
    /\ pcase = "absent"
    /\ pfields = NoFields
    /\ pkind = "None"
    /\ pvalue = <<>>
    /\ ppc = "Start"
    /\ presult = NoCredential
OthersIdle == AppIdle /\ ParseIdle

Init ==
    /\ method \in Methods
    /\ readonly \in ReadonlyArgs
    /\ retry \in 0..MaxRetry
    /\ pc = "Idle"
    /\ count = 0
    /\ tasks = <<>>
    /\ result = NoResult
    /\ returned = NoResult
    /\ raised = NoError
    /\ nextTask = 1
    /\ log = <<>>
    /\ rpc = FALSE
    /\ userArg = "default"
    /\ viewArgs = "none"
    /\ authType = "none"
    /\ idAnswer = "None"
    /\ user_ = Unresolved
    /\ consulted = 0
    /\ response = "Pending"
    /\ contextArg = "None"
    /\ opened = <<>>
    /\ OthersIdle

\* with_pool(with_transaction(user='request')(func)) for one request
InitRequest ==
    /\ method \in {"GET", "POST"}
    /\ readonly = "None"
    /\ retry \in 0..MaxRetry
    /\ pc = "Idle"
    /\ count = 0
    /\ tasks = <<>>
    /\ result = NoResult
    /\ returned = NoResult
    /\ raised = NoError
    /\ nextTask = 1
    /\ log = <<>>
    /\ rpc \in BOOLEAN
    /\ userArg \in {"default", "request"}
    /\ viewArgs \in {"none", "nodb", "db"}
    /\ authType \in {"none", "session", "basic"}
    /\ idAnswer \in UserIds \cup {"None", RateLimit}
    \* the answer of the identity service matters only when it is called:
    \* security.check answers a user id or None, security.login a user id
    \* or RateLimitException
    /\ IF userArg = "request" /\ viewArgs = "db" /\ authType = "session"
       THEN idAnswer \in UserIds \cup {"None"}
       ELSE IF userArg = "request" /\ viewArgs = "db" /\ authType = "basic"
       THEN idAnswer \in UserIds \cup {RateLimit}
       ELSE idAnswer = "None"
    /\ userArg = "default" => viewArgs = "none" /\ authType = "none"
    /\ viewArgs # "db" => authType = "none"
    /\ user_ = Unresolved
    /\ consulted = 0
    /\ response = "Pending"
    /\ contextArg \in {"None", "given"}
    /\ opened = <<>>
    /\ OthersIdle

\* with_transaction and with_pool are not running
TxIdle ==
    /\ method = "GET"
    /\ readonly = "None"
    /\ retry = 0
    /\ pc = "Idle"
    /\ count = 0
    /\ tasks = <<>>
    /\ result = NoResult
    /\ returned = NoResult
    /\ raised = NoError
    /\ nextTask = 1
    /\ log = <<>>
    /\ rpc = FALSE
    /\ userArg = "default"
    /\ viewArgs = "none"
    /\ authType = "none"
    /\ idAnswer = "None"
    /\ user_ = Unresolved
    /\ consulted = 0
    /\ response = "Pending"
    /\ contextArg = "None"
    /\ opened = <<>>

\* one request to a handler decorated with user_application(name, json)
InitApp ==
    /\ TxIdle
    /\ ParseIdle
    /\ hdrPresent \in BOOLEAN
    /\ hdrParts \in {<<>>} \cup {<<sc>> : sc \in Schemes}
                     \cup {<<sc, tk>> : sc \in Schemes, tk \in Tokens}
    /\ ~hdrPresent => hdrParts = <<>>
    /\ appName \in AppNames
    /\ jsonArg \in BOOLEAN
    /\ appPc = "Start"
    /\ appStatus = "None"
    /\ txUser \in {"0", "uid1"}
    /\ txAccess \in BOOLEAN
    /\ user0 = txUser
    /\ access0 = txAccess
    /\ handlerCalls = 0
    /\ lookups = 0

\* --------------------------------------------------------------- actions
\* with_transaction's wrapper up to the loop: user_ is the user argument, or
\* request.user_id when the argument is 'request'
ResolveUser ==
    /\ pc = "Idle"
    /\ user_ = Unresolved
    /\ IF userArg = "request"
       THEN LET u == UserId(viewArgs, authType, idAnswer) IN
            /\ consulted' = consulted + u.calls
            /\ user_' = u.user
            /\ IF u.error = NoError
               THEN UNCHANGED <<pc, raised>>
               ELSE pc' = "Failed" /\ raised' = u.error
       ELSE /\ user_' = "0"
            /\ UNCHANGED <<consulted, pc, raised>>
    /\ UNCHANGED <<method, readonly, retry, count, tasks, result, returned,
                   nextTask, log>>
    /\ UNCHANGED <<rpc, userArg, viewArgs, authType, idAnswer, response,
                   contextArg, opened>>
    /\ UNCHANGED others

\* with_pool's wrapper: func returned
PoolReturn ==
    /\ pc = "Done"
    /\ response = "Pending"
    /\ response' = "Returned"
    /\ UNCHANGED txVars
    /\ UNCHANGED <<rpc, userArg, viewArgs, authType, idAnswer, user_, consulted,
                   contextArg, opened>>
    /\ UNCHANGED others

\* with_pool's wrapper: func raised
PoolExcept ==
    /\ pc = "Failed"
    /\ response = "Pending"
    /\ response' = PoolOutcome(raised, rpc)
    /\ UNCHANGED txVars
    /\ UNCHANGED <<rpc, userArg, viewArgs, authType, idAnswer, user_, consulted,
                   contextArg, opened>>
    /\ UNCHANGED others

\* The wrapper is called: first pass of the loop, count = retry, no sleep
Enter ==
    /\ pc = "Idle"
    /\ user_ # Unresolved
    /\ count' = retry
    /\ tasks' = StartedTasks
    /\ log' = log \o AttemptEvents(retry)
    /\ opened' = Append(opened, StartArgs)
    /\ pc' = "TransactionOpen"
    /\ UNCHANGED <<method, readonly, retry, result, returned, raised, nextTask>>
    /\ UNCHANGED <<rpc, userArg, viewArgs, authType, idAnswer, user_, consulted,
                   response, contextArg>>
    /\ UNCHANGED others

\* The handler queues a task on the transaction
HandlerEnqueue ==
    /\ pc = "TransactionOpen"
    /\ result = NoResult
    /\ nextTask <= MaxTasks
    /\ tasks' = Append(tasks, nextTask)
    /\ nextTask' = nextTask + 1
    /\ log' = Append(log, Event("enqueue", nextTask))
    /\ UNCHANGED <<method, readonly, retry, pc, count, result, returned, raised>>
    /\ UNCHANGED outer

\* func returns normally
HandlerReturns ==
    /\ pc = "TransactionOpen"
    /\ result = NoResult
    /\ \E r \in Results :
        /\ result' = r
        /\ log' = Append(log, Event("return", r))
    /\ UNCHANGED <<method, readonly, retry, pc, count, tasks, returned, raised,
                   nextTask>>
    /\ UNCHANGED outer

\* func raises: the except clause, then the exit of the with block
HandlerRaises_NoContinue ==
    /\ pc = "TransactionOpen"
    /\ result = NoResult
    /\ \E e \in HandlerErrors :
        IF IsOperationalError(e) /\ RetryAllowed(count, readonly_)
        THEN /\ log' = log \o <<Event("operr", count), Event("rollback", count),
                                Event("commit", count)>>
             /\ pc' = "Committed"
             /\ UNCHANGED raised
        ELSE /\ log' = log \o <<Event(IF e = OperationalError THEN "operr"
                                      ELSE "error", count),
                                Event("exit", count)>>
             /\ pc' = "Failed"
             /\ raised' = e
    /\ UNCHANGED <<method, readonly, retry, count, tasks, result, returned,
                   nextTask>>
    /\ UNCHANGED outer

HandlerRaises ==
    /\ pc = "TransactionOpen"
    /\ result = NoResult
    /\ \E e \in HandlerErrors :
        IF IsOperationalError(e) /\ RetryAllowed(count, readonly_)
        THEN \* transaction.rollback(); continue
             /\ log' = log \o <<Event(IF e = OperationalError THEN "operr"
                                      ELSE "error", count),
                                Event("rollback", count),
                                Event("exit", count)>>
             /\ pc' = "RolledBack"
             /\ UNCHANGED raised
        ELSE \* raise, or no except clause matches
             /\ log' = log \o <<Event(IF e = OperationalError THEN "operr"
                                      ELSE "error", count),
                                Event("exit", count)>>
             /\ pc' = "Failed"
             /\ raised' = e
    /\ UNCHANGED <<method, readonly, retry, count, tasks, result, returned,
                   nextTask>>
    /\ UNCHANGED outer

\* The next pass of the loop after `continue`: sleep, new transaction, call
Retry_ResolvesAgain ==
    /\ pc = "RolledBack"
    /\ count > 0
    /\ count' = count - 1
    /\ tasks' = StartedTasks
    /\ log' = log \o AttemptEvents(count - 1)
    /\ IF userArg = "request"
       THEN LET u == UserId(viewArgs, authType, idAnswer) IN
            /\ consulted' = consulted + u.calls
            /\ user_' = u.user
            /\ opened' = Append(opened, [StartArgs EXCEPT !.user = u.user])
       ELSE /\ opened' = Append(opened, StartArgs)
            /\ UNCHANGED <<user_, consulted>>
    /\ pc' = "TransactionOpen"
    /\ UNCHANGED <<method, readonly, retry, result, returned, raised, nextTask>>
    /\ UNCHANGED <<rpc, userArg, viewArgs, authType, idAnswer, response,
                   contextArg>>
    /\ UNCHANGED others
Retry ==
    /\ pc = "RolledBack"
    /\ count > 0
    /\ count' = count - 1
    /\ tasks' = StartedTasks
    /\ log' = log \o AttemptEvents(count - 1)
    /\ opened' = Append(opened, StartArgs)
    /\ pc' = "TransactionOpen"
    /\ UNCHANGED <<method, readonly, retry, result, returned, raised, nextTask>>
    /\ UNCHANGED <<rpc, userArg, viewArgs, authType, idAnswer, user_, consulted,
                   response, contextArg>>
    /\ UNCHANGED others

\* transaction.commit() succeeds
Commit_SkipReadonly ==
    /\ pc = "TransactionOpen"
    /\ result # NoResult
    /\ log' = IF readonly_ THEN log ELSE Append(log, Event("commit", count))
    /\ pc' = "Committed"
    /\ UNCHANGED <<method, readonly, retry, count, tasks, result, returned,
                   raised, nextTask>>
    /\ UNCHANGED outer

Commit ==
    /\ pc = "TransactionOpen"
    /\ result # NoResult
    /\ log' = Append(log, Event("commit", count))
    /\ pc' = "Committed"
    /\ UNCHANGED <<method, readonly, retry, count, tasks, result, returned,
                   raised, nextTask>>
    /\ UNCHANGED outer

\* transaction.commit() raises: the with block is left with the exception
CommitFails_Retried ==
    /\ pc = "TransactionOpen"
    /\ result # NoResult
    /\ IF RetryAllowed(count, readonly_)
       THEN /\ log' = log \o <<Event("commit", count),
                                Event("commitfail", count),
                                Event("rollback", count), Event("exit", count)>>
            /\ pc' = "RolledBack"
            /\ UNCHANGED raised
       ELSE /\ log' = log \o <<Event("commit", count),
                                Event("commitfail", count),
                                Event("exit", count)>>
            /\ pc' = "Failed"
            /\ raised' = OperationalError
    /\ UNCHANGED <<method, readonly, retry, count, tasks, result, returned,
                   nextTask>>
    /\ UNCHANGED outer

CommitFails ==
    /\ pc = "TransactionOpen"
    /\ result # NoResult
    /\ log' = log \o <<Event("commit", count), Event("commitfail", count),
                       Event("exit", count)>>
    /\ pc' = "Failed"
    /\ raised' = OperationalError
    /\ UNCHANGED <<method, readonly, retry, count, tasks, result, returned,
                   nextTask>>
    /\ UNCHANGED outer

\* The with block is left after the commit
ExitScope_ReturnEarly ==
    /\ pc = "Committed"
    /\ log' = Append(log, Event("exit", count))
    /\ returned' = result
    /\ pc' = "Done"
    /\ UNCHANGED <<method, readonly, retry, count, tasks, result, raised,
                   nextTask>>
    /\ UNCHANGED outer

ExitScope ==
    /\ pc = "Committed"
    /\ log' = Append(log, Event("exit", count))
    /\ pc' = "DrainingTasks"
    /\ UNCHANGED <<method, readonly, retry, count, tasks, result, returned,
                   raised, nextTask>>
    /\ UNCHANGED outer

\* One pass of the while loop: pop a task id and run it
RunTask ==
    /\ pc = "DrainingTasks"
    /\ TasksPending(tasks)
    /\ tasks' = TaskPop(tasks).rest
    /\ log' = Append(log, Event("run", TaskPop(tasks).task_id))
    /\ UNCHANGED <<method, readonly, retry, pc, count, result, returned, raised,
                   nextTask>>
    /\ UNCHANGED outer

\* One pass of the while loop in which run_task raises: nothing in the
\* wrapper catches it
RunTaskFails_Swallowed ==
    /\ RunTaskMayFail
    /\ pc = "DrainingTasks"
    /\ TasksPending(tasks)
    /\ tasks' = TaskPop(tasks).rest
    /\ log' = log \o <<Event("run", TaskPop(tasks).task_id),
                       Event("runfail", TaskPop(tasks).task_id)>>
    /\ UNCHANGED <<method, readonly, retry, pc, count, result, returned,
                   raised, nextTask>>
    /\ UNCHANGED outer
RunTaskFails ==
    /\ RunTaskMayFail
    /\ pc = "DrainingTasks"
    /\ TasksPending(tasks)
    /\ tasks' = TaskPop(tasks).rest
    /\ log' = log \o <<Event("run", TaskPop(tasks).task_id),
                       Event("runfail", TaskPop(tasks).task_id)>>
    /\ pc' = "Failed"
    /\ raised' = TaskError
    /\ UNCHANGED <<method, readonly, retry, count, result, returned, nextTask>>
    /\ UNCHANGED outer

\* The while loop ends: return result
Return ==
    /\ pc = "DrainingTasks"
    /\ ~TasksPending(tasks)
    /\ returned' = result
    /\ log' = Append(log, Event("result", result))
    /\ pc' = "Done"
    /\ UNCHANGED <<method, readonly, retry, count, tasks, result, raised,
                   nextTask>>
    /\ UNCHANGED outer

\* user_application's wrapper up to the call of func: the header, the
\* scheme, the lookup of the token, then set_user and check_access
AppCall ==
    /\ appPc = "Start"
    /\ IF ~hdrPresent
       THEN \* request.headers['Authorization'] raises, outside the try
            /\ \E e \in MissingHeaderErrors : appStatus' = e
            /\ appPc' = "Raised"
            /\ UNCHANGED <<txUser, txAccess, handlerCalls, lookups>>
       ELSE IF Len(hdrParts) # 2
       THEN \* the unpacking of split(None, 1) raises ValueError
            /\ appStatus' = "401"
            /\ appPc' = "Raised"
            /\ UNCHANGED <<txUser, txAccess, handlerCalls, lookups>>
       ELSE IF Lower(hdrParts[1]) # "bearer"
       THEN /\ appStatus' = "403"
            /\ appPc' = "Raised"
            /\ UNCHANGED <<txUser, txAccess, handlerCalls, lookups>>
       ELSE LET application == Check(hdrParts[2], appName) IN
            /\ lookups' = lookups + 1
            /\ IF Denied(application)
               THEN /\ appStatus' = "403"
                    /\ appPc' = "Raised"
                    /\ UNCHANGED <<txUser, txAccess, handlerCalls>>
               ELSE /\ txUser' = SetUserArg(application)
                    /\ txAccess' = ScopedAccess
                    /\ handlerCalls' = handlerCalls + 1
                    /\ appPc' = "InHandler"
                    /\ UNCHANGED appStatus
    /\ UNCHANGED <<hdrPresent, hdrParts, appName, jsonArg, user0, access0>>
    /\ UNCHANGED <<txVars, reqVars, parseVars>>

\* func returns: the with block is left, the response is encoded
AppHandlerReturns ==
    /\ appPc = "InHandler"
    /\ \E kind \in {"Response", "value"} :
        appStatus' = Encoded(kind, jsonArg)
    /\ txUser' = user0
    /\ txAccess' = access0
    /\ appPc' = "Returned"
    /\ UNCHANGED <<hdrPresent, hdrParts, appName, jsonArg, user0, access0,
                   handlerCalls, lookups>>
    /\ UNCHANGED <<txVars, reqVars, parseVars>>

\* func raises: the with block is left with the exception
AppHandlerRaises ==
    /\ appPc = "InHandler"
    /\ appStatus' = "HandlerError"
    /\ txUser' = user0
    /\ txAccess' = access0
    /\ appPc' = "Raised"
    /\ UNCHANGED <<hdrPresent, hdrParts, appName, jsonArg, user0, access0,
                   handlerCalls, lookups>>
    /\ UNCHANGED <<txVars, reqVars, parseVars>>

\* one call parse_authorization_header(value)
InitParse ==
    /\ TxIdle
    /\ AppIdle
    /\ \E x \in ParseInputs :
        /\ pcase = x.case
        /\ pfields = x.fields
        /\ pkind = x.kind
        /\ pvalue = x.value
    /\ ppc = "Start"
    /\ presult = NoCredential

Parse ==
    /\ ppc = "Start"
    /\ presult' = ParseAuthorizationHeader(pkind, pvalue)
    /\ ppc' = "Done"
    /\ UNCHANGED <<pcase, pfields, pkind, pvalue>>
    /\ UNCHANGED <<txVars, reqVars, appVars>>

NextParse == Parse

SpecParse == InitParse /\ [][NextParse]_vars

NextApp ==
    \/ AppCall
    \/ AppHandlerReturns
    \/ AppHandlerRaises

SpecApp == InitApp /\ [][NextApp]_vars

Next ==
    \/ ResolveUser
    \/ Enter
    \/ HandlerEnqueue
    \/ HandlerReturns
    \/ HandlerRaises
    \/ Retry
    \/ Commit
    \/ CommitFails
    \/ ExitScope
    \/ RunTask
    \/ RunTaskFails
    \/ Return

Spec == Init /\ [][Next]_vars

NextRequest ==
    \/ ResolveUser
    \/ Enter
    \/ HandlerEnqueue
    \/ HandlerReturns
    \/ HandlerRaises
    \/ Retry
    \/ Commit
    \/ CommitFails
    \/ ExitScope
    \/ RunTask
    \/ RunTaskFails
    \/ Return
    \/ PoolReturn
    \/ PoolExcept

SpecRequest == InitRequest /\ [][NextRequest]_vars

\* ------------------------------------------------------- history helpers
Indices(e) == {i \in DOMAIN log : log[i].ev = e}
CountEv(e) == Cardinality(Indices(e))
Max(S) == CHOOSE x \in S : \A y \in S : y <= x
Min(S) == CHOOSE x \in S : \A y \in S : x <= y
\* index of the last start of a transaction (0: none yet)
LastStart == IF Indices("start") = {} THEN 0 ELSE Max(Indices("start"))
\* args of the events e at the indices in S, in log order
RECURSIVE ArgsFrom(_, _)
ArgsFrom(e, i) ==
    IF i > Len(log) THEN <<>>
    ELSE (IF log[i].ev = e THEN <<log[i].arg>> ELSE <<>>) \o ArgsFrom(e, i + 1)
Args(e) == ArgsFrom(e, 1)
Reverse(s) == [i \in 1..Len(s) |-> s[Len(s) + 1 - i]]
Range(s) == {s[i] : i \in DOMAIN s}

\* ---------------------------------------------------------------- claims
\* Position of index i among the indices of the events e: 1 for the first
Ordinal(e, i) == Cardinality({j \in Indices(e) : j <= i})
\* Every invocation of the handler so far ended in a DatabaseOperationalError
\* (or is still running)
AlwaysTransient == Indices("return") = {} /\ Indices("error") = {}

\* C1: on a read-write transaction, a handler that raises
\* DatabaseOperationalError on every invocation is invoked exactly retry + 1
\* times; each of the first retry failures is followed by a rollback and a
\* new attempt, and the failure of the last attempt leaves the wrapper.
C1_RetryExhausted ==
    (~readonly_ /\ AlwaysTransient) =>
        /\ CountEv("call") <= retry + 1
        /\ \A i \in Indices("operr") :
            IF Ordinal("operr", i) <= retry
            THEN /\ i + 2 <= Len(log)
                 /\ log[i + 1].ev = "rollback"
                 /\ log[i + 2].ev = "exit"
                 /\ \/ pc = "RolledBack" /\ i + 2 = Len(log)
                    \/ /\ i + 5 <= Len(log)
                       /\ log[i + 3].ev = "sleep"
                       /\ log[i + 4].ev = "start"
                       /\ log[i + 5].ev = "call"
            ELSE /\ Ordinal("operr", i) = retry + 1
                 /\ log[i + 1].ev = "exit"
                 /\ i + 1 = Len(log)
                 /\ pc = "Failed"
                 /\ raised = OperationalError
        /\ pc = "Failed" =>
            /\ CountEv("call") = retry + 1
            /\ CountEv("operr") = retry + 1
            /\ CountEv("rollback") = retry
            /\ raised = OperationalError
        /\ pc \notin {"Committed", "DrainingTasks", "Done"}

C1_Witness ==
    /\ ~readonly_
    /\ AlwaysTransient
    /\ retry >= 2
    /\ pc = "Failed"
    /\ CountEv("call") = retry + 1

\* C2: on a read-only transaction, a handler that raises
\* DatabaseOperationalError is invoked exactly once: no rollback, no retry,
\* no sleep, and the failure leaves the wrapper at once, unchanged.
C2_ReadonlyNoRetry ==
    (readonly_ /\ Indices("operr") # {}) =>
        /\ CountEv("call") = 1
        /\ CountEv("start") = 1
        /\ CountEv("operr") = 1
        /\ CountEv("rollback") = 0
        /\ CountEv("sleep") = 0
        /\ pc = "Failed"
        /\ raised = OperationalError
        /\ log[Len(log)].ev = "exit"
        /\ log[Len(log) - 1].ev = "operr"

C2_Witness ==
    /\ readonly_
    /\ retry >= 2
    /\ Indices("operr") # {}
    /\ pc = "Failed"

\* The task ids queued by the attempt in progress (since the last start)
RECURSIVE EnqueuedFrom(_)
EnqueuedFrom(i) ==
    IF i > Len(log) THEN <<>>
    ELSE (IF log[i].ev = "enqueue" THEN <<log[i].arg>> ELSE <<>>)
         \o EnqueuedFrom(i + 1)
EnqueuedByLastAttempt == EnqueuedFrom(LastStart + 1)
Ran == Args("run")

\* C3: the tasks queued during a successful attempt are run in the reverse
\* of the order in which they were queued, and no task is run before the
\* commit of that attempt has succeeded and the with block has been left.
C3_LifoAfterCommit ==
    /\ (pc \in {"DrainingTasks", "Done"} \/ Ran # <<>>) =>
        Ran \o Reverse(tasks) = Reverse(EnqueuedByLastAttempt)
    /\ pc = "Done" => Ran = Reverse(EnqueuedByLastAttempt)
    /\ \A i \in Indices("run") :
        \E c \in Indices("commit") : \E x \in Indices("exit") :
            /\ LastStart < c /\ c < x /\ x < i
            /\ (c + 1 \in DOMAIN log => log[c + 1].ev # "commitfail")

C3_Witness ==
    /\ pc = "Done"
    /\ Len(Ran) = 3
    /\ Ran[1] > Ran[2] /\ Ran[2] > Ran[3]

\* C4: a task is run only if the attempt that queued it committed: a task
\* queued by an attempt that was rolled back and retried, or that failed, is
\* never run.
C4_OnlyCommittedTasksRun ==
    \A i \in Indices("run") :
        \E q \in Indices("enqueue") :
            /\ log[q].arg = log[i].arg
            /\ q < i
            /\ \A j \in (q + 1)..(i - 1) :
                log[j].ev \notin {"start", "operr", "error", "rollback",
                                  "commitfail"}
            /\ \E r \in (q + 1)..(i - 1) : log[r].ev = "return"
            /\ \E c \in (q + 1)..(i - 1) : log[c].ev = "commit"

C4_Witness ==
    /\ Indices("run") # {}
    /\ Indices("rollback") # {}
    /\ \E q \in Indices("enqueue") : q < Min(Indices("rollback"))
    /\ pc = "Done"

\* C5: when the handler raises any error other than
\* DatabaseOperationalError, on any attempt and in either mode, the error
\* leaves the wrapper at once: no further attempt, no commit, no task run.
C5_OtherErrorPropagates ==
    \A i \in Indices("error") :
        /\ pc = "Failed"
        /\ raised \in OtherErrors
        /\ i + 1 = Len(log)
        /\ log[i + 1].ev = "exit"
        /\ CountEv("error") = 1
        /\ CountEv("commit") = 0
        /\ CountEv("run") = 0
        /\ CountEv("call") = Ordinal("call", i)

C5_Witness ==
    /\ Indices("error") # {}
    /\ Indices("rollback") # {}
    /\ tasks # <<>>
    /\ raised = "UserError"

\* C6 as stated: the queue of the transaction is non-empty only after a
\* successful commit and before the tasks have been drained.
C6_OnlyAfterCommit ==
    tasks # <<>> =>
        \E c \in Indices("commit") :
            /\ LastStart < c
            /\ (c + 1 \in DOMAIN log => log[c + 1].ev # "commitfail")

\* C6 amended: the queue is empty before the first attempt, when an
\* attempt's transaction has been opened and its handler has queued nothing
\* yet, and when the result is returned; it holds only ids queued by the
\* handler of the attempt in progress, from the first of them being queued
\* (before the commit) until they are drained.
C6_QueueLifetime ==
    /\ pc = "Idle" => tasks = <<>>
    /\ (pc = "TransactionOpen" /\ EnqueuedByLastAttempt = <<>>) => tasks = <<>>
    /\ pc = "Done" => tasks = <<>>
    /\ Range(tasks) \subseteq Range(EnqueuedByLastAttempt)
    /\ pc \in {"TransactionOpen", "Committed"} => tasks = EnqueuedByLastAttempt

C6_Witness ==
    /\ pc = "Done"
    /\ Len(EnqueuedByLastAttempt) >= 2
    /\ Indices("rollback") # {}

Transitions ==
    { <<"Idle", "TransactionOpen">>,
      <<"TransactionOpen", "Committed">>,
      <<"Committed", "DrainingTasks">>,
      <<"DrainingTasks", "Done">>,
      <<"TransactionOpen", "RolledBack">>,
      <<"RolledBack", "TransactionOpen">>,
      <<"TransactionOpen", "Failed">> }

\* C7 as stated: a run moves only along Idle -> TransactionOpen ->
\* Committed -> DrainingTasks -> Done, TransactionOpen -> RolledBack ->
\* TransactionOpen and TransactionOpen -> Failed; Failed is entered only from
\* TransactionOpen.
C7_TransitionsAsStated ==
    [][pc' # pc => <<pc, pc'>> \in Transitions]_vars

\* C7 amended: a run moves only along the transitions above and
\* Idle -> Failed (the principal of the request cannot be resolved: the login
\* is rate limited) and DrainingTasks -> Failed (a task whose execution
\* fails): Failed is entered from Idle, TransactionOpen or DrainingTasks, and
\* a run that has reached Committed moves to DrainingTasks and from there to
\* Done or Failed only.
C7_StateMachine ==
    [][pc' # pc =>
        <<pc, pc'>> \in Transitions \cup {<<"Idle", "Failed">>,
                                          <<"DrainingTasks", "Failed">>}]_vars

C7_Witness ==
    /\ pc = "Failed"
    /\ raised = TaskError
    /\ Indices("rollback") # {}
    /\ tasks # <<>>

\* C8: when the handler returns normally on some attempt, that attempt's
\* transaction is committed exactly once (read-only or not), no later
\* attempt is started, and the value returned to the caller is the result of
\* that invocation; no commit is issued for an attempt whose handler raised.
C8_CommitOnceReturnResult ==
    /\ CountEv("commit") <= 1
    /\ CountEv("return") <= 1
    /\ \A c \in Indices("commit") : c > 1 /\ log[c - 1].ev = "return"
    /\ \A r \in Indices("return") :
        /\ \A j \in (r + 1)..Len(log) : log[j].ev \notin {"start", "call", "sleep"}
        /\ log[r].arg = result
        /\ pc # "TransactionOpen" =>
            /\ r + 1 <= Len(log)
            /\ log[r + 1].ev = "commit"
    /\ pc = "Done" =>
        /\ CountEv("commit") = 1
        /\ CountEv("return") = 1
        /\ returned = log[Max(Indices("return"))].arg
    /\ pc # "Done" => returned = NoResult

C8_Witness ==
    /\ pc = "Done"
    /\ readonly_
    /\ returned = 2

\* C9: no sleep precedes the first attempt; before every later attempt the
\* wrapper sleeps 0.02 s * (retry - count), count being the attempts that
\* remain, i.e. k steps of 0.02 s before the k-th retry; each sleep comes
\* after the failed attempt's transaction was closed and before the next one
\* is opened.
C9_LinearBackoff ==
    /\ \A s \in Indices("sleep") :
        /\ log[s].arg = Ordinal("sleep", s) * BackoffStepMs
        /\ s > 1
        /\ log[s - 1].ev = "exit"
        /\ s + 1 <= Len(log)
        /\ log[s + 1].ev = "start"
        /\ log[s].arg = BackoffStepMs * (retry - log[s + 1].arg)
    /\ \A t \in Indices("start") :
        IF Ordinal("start", t) = 1
        THEN t = 1
        ELSE log[t - 1].ev = "sleep"

C9_Witness ==
    /\ CountEv("sleep") = 3
    /\ log[Max(Indices("sleep"))].arg = 60

\* C10: every task id taken from the queue is run exactly once: it is
\* removed from the queue when it is run and never put back, and when the
\* wrapper returns the result every id that was queued at the commit has
\* been run exactly once and the queue is empty.
C10_ExactlyOnce ==
    /\ \A i, j \in Indices("run") : i # j => log[i].arg # log[j].arg
    /\ \A i \in Indices("run") : log[i].arg \notin Range(tasks)
    /\ pc = "Done" =>
        /\ Range(Ran) = Range(EnqueuedByLastAttempt)
        /\ Len(Ran) = Len(EnqueuedByLastAttempt)
        /\ tasks = <<>>

C10_Witness ==
    /\ pc = "Done"
    /\ Len(Ran) >= 2
    /\ Indices("rollback") # {}

\* C19: without an explicit readonly flag the request method alone decides
\* what happens on a DatabaseOperationalError of the handler: POST, PUT,
\* DELETE and PATCH run read-write and are retried up to retry times, any
\* other method runs read-only and is never retried; an explicit flag is
\* used for every attempt whatever the method.
RetriedUpToR ==
    /\ \A i \in Indices("operr") :
        log[i].arg > 0 =>
            /\ i + 1 <= Len(log)
            /\ log[i + 1].ev = "rollback"
    /\ (AlwaysTransient /\ pc = "Failed") => CountEv("call") = retry + 1
    /\ \A i \in Indices("operr") :
        (pc = "Failed" /\ i + 1 = Len(log)) => log[i].arg = 0
NeverRetried ==
    /\ CountEv("rollback") = 0
    /\ CountEv("sleep") = 0
    /\ CountEv("call") <= 1
    /\ Indices("operr") # {} => pc = "Failed"
C19_MethodDecidesMode ==
    /\ (readonly = "None" /\ method \in {"POST", "PUT", "DELETE", "PATCH"})
        => RetriedUpToR
    /\ (readonly = "None" /\ method \notin {"POST", "PUT", "DELETE", "PATCH"})
        => NeverRetried
    /\ readonly = "False" => RetriedUpToR
    /\ readonly = "True" => NeverRetried

C19_Witness ==
    /\ readonly = "None"
    /\ method = "PATCH"
    /\ retry >= 2
    /\ pc = "Failed"
    /\ CountEv("rollback") = retry

\* C20: a DatabaseOperationalError raised by the commit, after the handler
\* returned, is not retried: also on a read-write transaction with attempts
\* left it leaves the wrapper without rollback and retry, without a sleep
\* and without any task being run.
C20_CommitFailureNotRetried ==
    \A i \in Indices("commitfail") :
        /\ pc = "Failed"
        /\ raised = OperationalError
        /\ returned = NoResult
        /\ log[i - 1].ev = "commit"
        /\ log[i - 2].ev = "return"
        /\ i + 1 = Len(log)
        /\ log[i + 1].ev = "exit"
        /\ \A j \in (LastStart + 1)..Len(log) :
            log[j].ev \notin {"rollback", "sleep", "run"}
        /\ CountEv("run") = 0

C20_Witness ==
    /\ Indices("commitfail") # {}
    /\ ~readonly_
    /\ count > 0
    /\ tasks # <<>>
    /\ pc = "Failed"

\* C15: when security.login signals RateLimitException while the principal
\* is resolved from a password credential, the request ends with the 429
\* HTTPException for RPC and other callers alike: the login is called once
\* whatever retry is, no transaction is started and the handler is not called.
C15_RateLimited ==
    (/\ userArg = "request"
     /\ viewArgs = "db"
     /\ authType = "basic"
     /\ idAnswer = RateLimit
     /\ consulted > 0) =>
        /\ pc = "Failed"
        /\ raised = TooManyRequests
        /\ consulted = 1
        /\ log = <<>>
        /\ response \in {"Pending", "Reraised"}

C15_Witness ==
    /\ idAnswer = RateLimit
    /\ consulted = 1
    /\ ~rpc
    /\ retry >= 2
    /\ response = "Reraised"

\* C16: how with_pool ends depends only on the class of the error and on
\* the RPC flag: an HTTPException passes unchanged; UserError and UserWarning
\* become status 400 for a non-RPC request and are re-raised for an RPC one;
\* any other error, a DatabaseOperationalError that with_transaction
\* propagated included, becomes status 500 for a non-RPC request and is
\* re-raised for an RPC one.
C16_PoolErrorMapping ==
    response # "Pending" =>
        /\ pc \in {"Done", "Failed"}
        /\ pc = "Done" => response = "Returned"
        /\ pc = "Failed" =>
            IF raised \in {"HTTPException", TooManyRequests}
            THEN response = "Reraised"
            ELSE IF raised \in {"UserError", "UserWarning"}
            THEN response = (IF rpc THEN "Reraised" ELSE "Status400")
            ELSE /\ raised \in {OperationalError, "Exception", TaskError}
                 /\ response = (IF rpc THEN "Reraised" ELSE "Status500")

C16_Witness ==
    /\ response = "Status500"
    /\ raised = OperationalError
    /\ CountEv("rollback") >= 1
    /\ Indices("commitfail") = {}

\* C11 as stated: without an Authorization header the wrapper of
\* user_application fails with Unauthorized (401); the handler is not called
\* and no token is looked up.
C11_MissingHeaderUnauthorized ==
    (~hdrPresent /\ appPc # "Start") =>
        /\ appStatus = "401"
        /\ handlerCalls = 0
        /\ lookups = 0

\* C12: a header '<scheme> <info>' whose scheme is not 'bearer' in any
\* letter case fails with Forbidden (403) before any lookup of the token, and
\* the handler is not called; every spelling of 'bearer' passes the test of
\* the scheme.
C12_WrongSchemeForbidden ==
    (hdrPresent /\ Len(hdrParts) = 2 /\ appPc # "Start") =>
        /\ hdrParts[1] \in {"Basic", "basic"} =>
            /\ appStatus = "403"
            /\ appPc = "Raised"
            /\ lookups = 0
            /\ handlerCalls = 0
        /\ hdrParts[1] \in {"bearer", "Bearer", "BEARER"} => lookups = 1

C12_Witness ==
    /\ hdrPresent
    /\ hdrParts = <<"Basic", "tokA">>
    /\ appName = "app1"
    /\ appStatus = "403"

\* The header is present, its scheme is bearer and its token is the key of
\* a registration of the declared application
Authorized ==
    /\ hdrPresent
    /\ Len(hdrParts) = 2
    /\ hdrParts[1] \in {"bearer", "Bearer", "BEARER"}
    /\ \/ hdrParts[2] = "tokA" /\ appName = "app1"
       \/ hdrParts[2] = "tokB" /\ appName = "app2"

\* C13: the handler is called exactly once when the header is present, the
\* scheme is bearer and the token matches a registration of the declared
\* application, and never otherwise; a bearer token without a matching
\* registration gives Forbidden (403).
C13_HandlerOnceIffAuthorized ==
    /\ appPc = "Start" => handlerCalls = 0
    /\ appPc # "Start" =>
        /\ handlerCalls = (IF Authorized THEN 1 ELSE 0)
        /\ (/\ hdrPresent
            /\ Len(hdrParts) = 2
            /\ hdrParts[1] \in {"bearer", "Bearer", "BEARER"}
            /\ ~Authorized) =>
                /\ appStatus = "403"
                /\ appPc = "Raised"

C13_Witness ==
    /\ hdrPresent
    /\ hdrParts = <<"Bearer", "tokA">>
    /\ appName = "app2"
    /\ appStatus = "403"
    /\ lookups = 1

\* C14: while the handler runs the active principal is the owning user of
\* the matched registration; when the call has ended, by return or by
\* exception, the active principal and the access-control setting are what
\* they were before the wrapper ran.
C14_ScopedPrincipal ==
    /\ appPc = "InHandler" =>
        \/ hdrParts[2] = "tokA" /\ appName = "app1" /\ txUser = "owner1"
        \/ hdrParts[2] = "tokB" /\ appName = "app2" /\ txUser = "owner2"
    /\ appPc \in {"Start", "Returned", "Raised"} =>
        /\ txUser = user0
        /\ txAccess = access0

C14_Witness ==
    /\ appPc = "Raised"
    /\ appStatus = "HandlerError"
    /\ user0 = "uid1"
    /\ access0 = TRUE
    /\ handlerCalls = 1

\* C18: parse_authorization_header never raises: whatever the raw header
\* value, text or bytes, the outcome is a credential or no credential.
C18_NeverRaises ==
    ppc = "Done" => presult.kind \in {"session", "None"}

\* C17: a header '<session> <base64 of username:userid:token>', the scheme in
\* any letter case, gives the session credential of exactly that username,
\* user id and token; an absent or empty value, a value with no info part, a
\* payload that is not base64, whose user id is not an integer or that has
\* not exactly three fields, and any other scheme give no credential.
C17_RoundTripAndFailClosed ==
    ppc = "Done" =>
        /\ pcase = "wellformed" =>
            presult = Credential(pfields.username, pfields.userid,
                                 pfields.session)
        /\ pcase \in {"absent", "empty", "noinfo", "nonBase64", "truncated",
                      "badId", "twoFields", "fourFields", "otherScheme"} =>
            presult = NoCredential

\* C21: when the execution of a deferred task fails while the queue is
\* drained, the failure leaves the wrapper after the commit: the transaction
\* stays committed and is not retried, the tasks still pending are never
\* run, the failed task is not run again, and the handler's result is not
\* returned.
C21_TaskFailurePropagates ==
    \A i \in Indices("runfail") :
        /\ pc = "Failed"
        /\ raised = TaskError
        /\ returned = NoResult
        /\ Indices("result") = {}
        /\ i = Len(log)
        /\ log[i - 1] = Event("run", log[i].arg)
        /\ \E j \in Indices("commit") :
            /\ LastStart < j
            /\ j < i
            /\ log[j + 1].ev = "exit"
            /\ \A k \in j..i :
                log[k].ev \notin {"rollback", "sleep", "start", "call",
                                  "commitfail"}
        /\ Cardinality({k \in Indices("run") : log[k].arg = log[i].arg}) = 1
        /\ log[i].arg \notin Range(tasks)
        /\ Range(tasks) \cap Range(Ran) = {}
        /\ Range(tasks) \subseteq Range(EnqueuedByLastAttempt)

C21_Witness ==
    /\ Indices("runfail") # {}
    /\ pc = "Failed"
    /\ ~readonly_
    /\ count > 0
    /\ tasks # <<>>
    /\ Len(Ran) >= 2
    /\ result # NoResult

\* the request carries nothing the identity service could be asked about
NoIdentity == viewArgs \in {"none", "nodb"} \/ authType = "none"

TypeOK ==
    /\ pc \in {"Idle", "TransactionOpen", "RolledBack", "Committed",
               "DrainingTasks", "Done", "Failed"}
    /\ count \in 0..retry
    /\ result \in Results \cup {NoResult}
    /\ returned \in Results \cup {NoResult}
    /\ raised \in HandlerErrors \cup {TaskError, NoError, TooManyRequests}
    /\ user_ \in UserIds \cup {"None", "0", Unresolved}
    /\ consulted \in 0..1
    /\ response \in {"Pending", "Returned", "Reraised", "Status400",
                      "Status500"}
    /\ contextArg \in {"None", "given"}
    /\ Len(opened) <= retry + 1
====
